---- MODULE Spec2Model ----
(***************************************************************************)
(* A model of diff (src/diff.go): the byte comparison of two files         *)
(* (cmpFiles), the reconciliation of two directory listings (diffDirs),    *)
(* and the goroutines main spawns and waits for on the process-wide        *)
(* WaitGroup wg.                                                           *)
(***************************************************************************)
EXTENDS Integers, Sequences, FiniteSets, TLC

\* ------------------------------------------------------------ bounds
\* The chunk size of cmpFiles (diff.go:33 sets 4 * 1024), scaled down so that
\* files of a few bytes span several full chunks and a partial last chunk.
CHUNK_SIZE == 2
\* Longest content of the two root files of a file-against-file run.
MaxLen == 5
\* Most directory entries of the two trees of a directory run, both sides together.
MaxEntries == 4

Bytes == {0, 1}
\* Entry names, in the order os.ReadDir sorts them.
NameOrder == <<"a", "b">>
Names == {NameOrder[k] : k \in DOMAIN NameOrder}
\* Contents of the files inside the directory trees.
NestedData == {<<0>>, <<1>>}

Min(x, y) == IF x <= y THEN x ELSE y

\* ------------------------------------------------------------ the file system
\* One side's tree: a function from relative paths (sequences of names, <<>> the
\* root) to nodes.
FileNode(d) == [dir |-> FALSE, data |-> d]
DirNode == [dir |-> TRUE, data |-> <<>>]

RECURSIVE DataUpTo(_)
DataUpTo(n) ==
  IF n = 0 THEN {<<>>}
  ELSE LET S == DataUpTo(n - 1)
       IN  S \cup {Append(s, b) : s \in {x \in S : Len(x) = n - 1}, b \in Bytes}

RootFiles(D) == {(<<>> :> FileNode(d)) : d \in D}

\* The trees with one more entry than t: a new child below one of t's directories.
Extend(t) ==
  UNION {{t @@ (Append(pm[1], pm[2]) :> n) : n \in {DirNode} \cup {FileNode(d) : d \in NestedData}}
         : pm \in {x \in (DOMAIN t) \X Names :
                     t[x[1]].dir /\ Append(x[1], x[2]) \notin DOMAIN t}}

RECURSIVE TreesOfSize(_)
TreesOfSize(n) ==
  IF n = 0 THEN {(<<>> :> DirNode)}
  ELSE UNION {Extend(t) : t \in TreesOfSize(n - 1)}

DirPairs ==
  UNION {TreesOfSize(ij[1]) \X TreesOfSize(ij[2])
         : ij \in {x \in (0..MaxEntries) \X (0..MaxEntries) : x[1] + x[2] <= MaxEntries}}

FilePairs == RootFiles(DataUpTo(MaxLen)) \X RootFiles(DataUpTo(MaxLen))

MixedPairs ==
  LET F == RootFiles(NestedData)
      T == UNION {TreesOfSize(n) : n \in 0..(MaxEntries - 1)}
  IN  (F \X T) \cup (T \X F)

VARIABLES
  fs,         \* <<tree of path1, tree of path2>>
  recursive,  \* the -r flag
  args,       \* the rest of the command line: the -h flag and the number of paths
  mainpc,     \* where main is
  tasks,      \* the goroutines spawned so far, in spawn order
  wg,         \* the counter of the WaitGroup
  out,        \* the lines written to standard output, in order
  io,         \* the file-system calls made so far
  faulted,    \* a file-system call has returned an error
  exited,     \* the process has ended
  exitCode    \* its status

vars == <<fs, recursive, args, mainpc, tasks, wg, out, io, faulted, exited, exitCode>>

\* ------------------------------------------------------------ paths and the OS
Path(side, rel) == [root |-> side, rel |-> rel]
Root1 == Path(1, <<>>)
Root2 == Path(2, <<>>)

\* Join with the name dropped: every entry of a directory gets the directory's path.
JoinDropsName(dir, name) == dir

\* path.Join(dir, name)
Join(dir, name) == [root |-> dir.root, rel |-> Append(dir.rel, name)]

Exists(p) == p.rel \in DOMAIN fs[p.root]
IsDir(p) == Exists(p) /\ fs[p.root][p.rel].dir
Data(p) == IF Exists(p) THEN fs[p.root][p.rel].data ELSE <<>>

\* os.ReadDir(dir): the entries of dir, sorted by name.
Child(dir, name) == Path(dir.root, Append(dir.rel, name))
Entry(dir, name) == [name |-> name, isDir |-> IsDir(Child(dir, name))]
ReadDir(dir) ==
  LET present == SelectSeq(NameOrder, LAMBDA m : Exists(Child(dir, m)))
  IN  [k \in DOMAIN present |-> Entry(dir, present[k])]

IoCall(op, p) == [op |-> op, path |-> p]

\* ------------------------------------------------------------ report lines
FilesDiffer(p1, p2) == [kind |-> "differ", p1 |-> p1, p2 |-> p2]
OnlyIn(dir, name) == [kind |-> "only", dir |-> dir, name |-> name]
TypeMismatch(p1, t1, p2, t2) ==
  [kind |-> "mismatch", p1 |-> p1, t1 |-> t1, p2 |-> p2, t2 |-> t2]
CommonSubdirs(p1, p2) == [kind |-> "common", p1 |-> p1, p2 |-> p2]
CannotCompare == [kind |-> "usage"]
UsageLine == [kind |-> "help"]
FlagDefaults == [kind |-> "defaults"]

\* ------------------------------------------------------------ the pieces of the code
\* A line that reaches standard output in two writes.
PrintfInParts(w, line) == w \o <<[kind |-> "part", of |-> line], [kind |-> "part", of |-> line]>>

\* fmt.Printf / fmt.Println on os.Stdout: the whole line in one Write.
Printf(w, line) == Append(w, line)

\* checkErr that returns without calling log.Fatal.
CheckErrIgnored(err, next) == next

\* checkErr(err): a non-nil error sends the caller to log.Fatal.
CheckErr(err, next) == IF err THEN "fatal" ELSE next

\* Help printed only when paths are missing: a third path is let through.
WantsUsageTooFew(help, n) == help \/ n < 2

\* *help || len(pflag.Args()) != 2
WantsUsage(help, n) == help \/ n # 2

\* A goroutine started without wg.Add(1).
WgAddNone(n) == n

\* A Done that is never counted.
WgDoneLost(n) == n

\* A second Done per task (a deferred wg.Done() beside the explicit one), and a
\* main that does not wait.
WgDoneTwice(n) == n - 2
WaitReturnsAtOnce(n) == TRUE

\* wg.Add(1), wg.Done() and the condition under which wg.Wait() returns.
WgAdd(n) == n + 1
WgDone(n) == n - 1
WaitReturns(n) == n = 0

\* The file branch taken when either path is a file (|| for &&).
DispatchEitherFile(d1, d2) ==
  IF ~d1 \/ ~d2 THEN "files"
  ELSE IF d1 /\ d2 THEN "dirs"
  ELSE "usage"

\* main's choice between diffFiles, diffDirs and the usage failure.
Dispatch(d1, d2) ==
  IF ~d1 /\ ~d2 THEN "files"
  ELSE IF d1 /\ d2 THEN "dirs"
  ELSE "usage"

\* Common subdirectories entered whatever the flag says.
ClassifyAlwaysRecurse(ok, d1, d2, rec) ==
  IF ok
    THEN IF ~d1 /\ ~d2 THEN "files"
         ELSE IF d1 /\ d2 THEN "dirs"
         ELSE IF d1 /\ ~d2 THEN "dirfile"
         ELSE "filedir"
    ELSE "only1"

\* diffDirs' treatment of an entry f of dir1: ok says that dir2 holds the name,
\* d1 and d2 are f.IsDir() and f2.e.IsDir().
Classify(ok, d1, d2, rec) ==
  IF ok
    THEN IF ~d1 /\ ~d2 THEN "files"
         ELSE IF d1 /\ d2 THEN (IF rec THEN "dirs" ELSE "common")
         ELSE IF d1 /\ ~d2 THEN "dirfile"
         ELSE "filedir"
    ELSE "only1"

\* The second type-mismatch line printed with the labels of the first.
ClassLineSameLabels(cls, dir1, path1, path2, name) ==
  CASE cls = "common" -> CommonSubdirs(path1, path2)
    [] cls = "dirfile" -> TypeMismatch(path1, "directory", path2, "file")
    [] cls = "filedir" -> TypeMismatch(path1, "directory", path2, "file")
    [] OTHER -> OnlyIn(dir1, name)

\* The line diffDirs prints for a classification that spawns nothing.
ClassLine(cls, dir1, path1, path2, name) ==
  CASE cls = "common" -> CommonSubdirs(path1, path2)
    [] cls = "dirfile" -> TypeMismatch(path1, "directory", path2, "file")
    [] cls = "filedir" -> TypeMismatch(path1, "file", path2, "directory")
    [] OTHER -> OnlyIn(dir1, name)

\* The flag set on the copy f2 and never written back to the map.
MarkCheckedNotStored(checked, ok, name) == checked

\* f2.c = true; fileSet2[name] = f2: the names of dir2 marked as checked.
MarkChecked(checked, ok, name) == IF ok THEN checked \cup {name} ELSE checked

\* Every name of dir2 taken as unchecked.
UncheckedAlways(checked, name) == TRUE

\* !fileSet2[name].c
Unchecked(checked, name) == name \notin checked

\* Only f1 closed when cmpFiles returns.
CloseFirstOnly(open) == open \ {1}

\* defer f1.Close() and defer f2.Close(): no handle of cmpFiles is open once it
\* has returned.
CloseDeferred(open) == {}

\* The size check left out: the loop is entered whatever the sizes.
SizesMatchAlways(sz1, sz2) == TRUE

\* stat1.Size() != stat2.Size() sends cmpFiles to return false; SizesMatch is its
\* negation.
SizesMatch(sz1, sz2) == sz1 = sz2

\* make([]byte, CHUNK_SIZE)
NewBuffer == [k \in 1..CHUNK_SIZE |-> 0]

\* What f.Read(b) can return at offset pos: end-of-input at the end, else some
\* bytes (all that fit, or fewer), or an error.
Reads(p, pos) ==
  LET rem == Len(Data(p)) - pos
  IN  (IF rem <= 0 THEN {[n |-> 0, err |-> "EOF"]}
       ELSE {[n |-> k, err |-> "nil"] : k \in 1..Min(rem, CHUNK_SIZE)})
      \cup {[n |-> 0, err |-> "fault"]}

\* A read that returned fewer bytes than fit without reaching the end of the file.
IsShort(p, pos, r) == r.err = "nil" /\ r.n < Min(Len(Data(p)) - pos, CHUNK_SIZE)

\* A read that uses the buffer beyond the n bytes it returns as scratch space and
\* leaves something of its own file there.
FillScratch(b, p, pos, n) ==
  [k \in 1..CHUNK_SIZE |-> IF k <= n THEN Data(p)[pos + k] ELSE p.root - 1]

\* The buffer after a read of n bytes at pos: the bytes beyond n stay.
Fill(b, p, pos, n) == [k \in 1..CHUNK_SIZE |-> IF k <= n THEN Data(p)[pos + k] ELSE b[k]]

\* A comparison that stops one byte short of the end of the buffers.
BytesEqualButLast(b1, b2) == SubSeq(b1, 1, Len(b1) - 1) = SubSeq(b2, 1, Len(b2) - 1)

\* bytes.Equal(b1, b2), on the whole buffers (b1[:CHUNK_SIZE] is all of b1).
BytesEqual(b1, b2) == b1 = b2

\* The pass without the two branches for a single end-of-input: io.EOF on one
\* side alone is an error like any other.
ReadOutcomeEofFatal(err1, err2, n1, n2, b1, b2) ==
  IF err1 = "EOF" /\ err2 = "EOF" THEN "equal"
  ELSE IF err1 # "nil" \/ err2 # "nil" THEN "fatal"
  ELSE IF n1 # n2 THEN "differ"
  ELSE IF ~BytesEqual(b1, b2) THEN "differ"
  ELSE "loop"

\* The pass without the comparison of the two counts.
ReadOutcomeNoCount(err1, err2, n1, n2, b1, b2) ==
  IF err1 = "EOF" /\ err2 = "EOF" THEN "equal"
  ELSE IF err1 = "EOF" /\ err2 = "nil" THEN "differ"
  ELSE IF err1 = "nil" /\ err2 = "EOF" THEN "differ"
  ELSE IF err1 # "nil" \/ err2 # "nil" THEN "fatal"
  ELSE IF ~BytesEqual(b1, b2) THEN "differ"
  ELSE "loop"

\* One pass of cmpFiles' loop after the two reads: return true ("equal"), return
\* false ("differ"), log.Fatal ("fatal") or go round again ("loop").
ReadOutcome(err1, err2, n1, n2, b1, b2) ==
  IF err1 = "EOF" /\ err2 = "EOF" THEN "equal"
  ELSE IF err1 = "EOF" /\ err2 = "nil" THEN "differ"
  ELSE IF err1 = "nil" /\ err2 = "EOF" THEN "differ"
  ELSE IF err1 # "nil" \/ err2 # "nil" THEN "fatal"
  ELSE IF n1 # n2 THEN "differ"
  ELSE IF ~BytesEqual(b1, b2) THEN "differ"
  ELSE "loop"

\* A goroutine as go diffFiles(...) or go diffDirs(...) starts it.
NewTask(kind, parent, p1, p2, rec) ==
  [kind |-> kind, parent |-> parent, p1 |-> p1, p2 |-> p2, rec |-> rec,
   pc |-> IF kind = "file" THEN "open1" ELSE "readdir",
   files1 |-> <<>>, files2 |-> <<>>, checked |-> {}, i |-> 0,
   open |-> {}, sz1 |-> 0, sz2 |-> 0, pos1 |-> 0, pos2 |-> 0,
   b1 |-> <<>>, b2 |-> <<>>, eq |-> TRUE, short |-> FALSE,
   reads |-> 0, n1 |-> 0, n2 |-> 0, err1 |-> "none", err2 |-> "none"]

\* ------------------------------------------------------------ the initial state
\* The command lines: -h given or not, and zero to three positional arguments.
CommandLines == [help : BOOLEAN, n : 0..3]
TwoPaths == [help |-> FALSE, n |-> 2]
\* The file systems the runs that only print the usage text are started in.
SmallPairs ==
  (RootFiles(NestedData) \X RootFiles(NestedData))
    \cup (TreesOfSize(0) \X TreesOfSize(1))
    \cup (RootFiles(NestedData) \X TreesOfSize(0))

Init ==
  /\ args \in CommandLines
  /\ fs \in (IF args = TwoPaths THEN FilePairs \cup DirPairs \cup MixedPairs ELSE SmallPairs)
  /\ recursive \in (IF fs[1][<<>>].dir /\ fs[2][<<>>].dir THEN BOOLEAN ELSE {FALSE})
  /\ mainpc = "parse"
  /\ tasks = <<>>
  /\ wg = 0
  /\ out = <<>>
  /\ io = {}
  /\ faulted = FALSE
  /\ exited = FALSE
  /\ exitCode = 0

\* ------------------------------------------------------------ main
\* pflag.Parse() and the help branch: the usage text and os.Exit(0).
MainParse ==
  /\ ~exited /\ mainpc = "parse"
  /\ IF WantsUsage(args.help, args.n)
       THEN /\ out' = Printf(Printf(out, UsageLine), FlagDefaults)
            /\ exited' = TRUE
            /\ exitCode' = 0
            /\ mainpc' = "exit"
       ELSE /\ mainpc' = "stat1"
            /\ UNCHANGED <<out, exited, exitCode>>
  /\ UNCHANGED <<fs, recursive, args, tasks, wg, io, faulted>>

MainStat1 ==
  /\ ~exited /\ mainpc = "stat1"
  /\ \E err \in BOOLEAN :
       /\ mainpc' = CheckErr(err, "stat2")
       /\ faulted' = (faulted \/ err)
  /\ io' = io \cup {IoCall("stat", Root1)}
  /\ UNCHANGED <<fs, recursive, args, tasks, wg, out, exited, exitCode>>

MainStat2 ==
  /\ ~exited /\ mainpc = "stat2"
  /\ \E err \in BOOLEAN :
       /\ mainpc' = CheckErr(err, "dispatch")
       /\ faulted' = (faulted \/ err)
  /\ io' = io \cup {IoCall("stat", Root2)}
  /\ UNCHANGED <<fs, recursive, args, tasks, wg, out, exited, exitCode>>

MainDispatch ==
  /\ ~exited /\ mainpc = "dispatch"
  /\ LET d == Dispatch(IsDir(Root1), IsDir(Root2))
     IN  IF d = "usage"
           THEN /\ out' = Printf(out, CannotCompare)
                /\ exited' = TRUE
                /\ exitCode' = 1
                /\ mainpc' = "exit"
                /\ UNCHANGED <<tasks, wg>>
           ELSE /\ wg' = WgAdd(wg)
                /\ tasks' = Append(tasks,
                     IF d = "files" THEN NewTask("file", 0, Root1, Root2, FALSE)
                     ELSE NewTask("dir", 0, Root1, Root2, recursive))
                /\ mainpc' = "wait"
                /\ UNCHANGED <<out, exited, exitCode>>
  /\ UNCHANGED <<fs, recursive, args, io, faulted>>

\* wg.Wait() returns, main returns and the process ends with status 0.
MainWait ==
  /\ ~exited /\ mainpc = "wait"
  /\ WaitReturns(wg)
  /\ mainpc' = "returned"
  /\ exited' = TRUE
  /\ exitCode' = 0
  /\ UNCHANGED <<fs, recursive, args, tasks, wg, out, io, faulted>>

\* log.Fatal in main: the process ends with status 1.
MainFatal ==
  /\ ~exited /\ mainpc = "fatal"
  /\ mainpc' = "exit"
  /\ exited' = TRUE
  /\ exitCode' = 1
  /\ UNCHANGED <<fs, recursive, args, tasks, wg, out, io, faulted>>

\* ------------------------------------------------------------ diffFiles
\* os.Open(file1) and f1.Stat(); err says that one of the two failed.
FileOpen1(t) ==
  LET T == tasks[t] IN
  /\ ~exited /\ T.kind = "file" /\ T.pc = "open1"
  /\ \E err \in BOOLEAN :
       /\ tasks' = [tasks EXCEPT ![t] =
            [T EXCEPT !.pc = CheckErr(err, "open2"),
                      !.open = IF err THEN {} ELSE {1},
                      !.sz1 = IF err THEN 0 ELSE Len(Data(T.p1))]]
       /\ faulted' = (faulted \/ err)
  /\ io' = io \cup {IoCall("open", T.p1)}
  /\ UNCHANGED <<fs, recursive, args, mainpc, wg, out, exited, exitCode>>

\* os.Open(file2), f2.Stat() and the comparison of the sizes
FileOpen2(t) ==
  LET T == tasks[t] IN
  /\ ~exited /\ T.kind = "file" /\ T.pc = "open2"
  /\ \E err \in BOOLEAN :
       LET sz2 == Len(Data(T.p2))
           same == SizesMatch(T.sz1, sz2)
       IN  /\ tasks' = [tasks EXCEPT ![t] =
                 IF err
                   THEN [T EXCEPT !.pc = CheckErr(TRUE, "read")]
                   ELSE [T EXCEPT !.pc = CheckErr(FALSE, IF same THEN "read" ELSE "report"),
                                  !.open = IF same THEN {1, 2} ELSE CloseDeferred({1, 2}),
                                  !.sz2 = sz2,
                                  !.eq = same,
                                  !.b1 = IF same THEN NewBuffer ELSE <<>>,
                                  !.b2 = IF same THEN NewBuffer ELSE <<>>]]
           /\ faulted' = (faulted \/ err)
  /\ io' = io \cup {IoCall("open", T.p2)}
  /\ UNCHANGED <<fs, recursive, args, mainpc, wg, out, exited, exitCode>>

\* One pass of the loop of cmpFiles: f1.Read(b1), f2.Read(b2) and the decision.
FileRead(t) ==
  LET T == tasks[t] IN
  /\ ~exited /\ T.kind = "file" /\ T.pc = "read"
  /\ \E r1 \in Reads(T.p1, T.pos1), r2 \in Reads(T.p2, T.pos2) :
       LET nb1 == Fill(T.b1, T.p1, T.pos1, r1.n)
           nb2 == Fill(T.b2, T.p2, T.pos2, r2.n)
           o == ReadOutcome(r1.err, r2.err, r1.n, r2.n, nb1, nb2)
       IN  /\ tasks' = [tasks EXCEPT ![t] =
                 [T EXCEPT !.pc = IF o = "fatal" THEN "fatal"
                                  ELSE IF o = "loop" THEN "read" ELSE "report",
                           !.pos1 = T.pos1 + r1.n,
                           !.pos2 = T.pos2 + r2.n,
                           !.b1 = nb1,
                           !.b2 = nb2,
                           !.eq = (o = "equal"),
                           !.reads = T.reads + 1,
                           !.n1 = r1.n,
                           !.n2 = r2.n,
                           !.err1 = r1.err,
                           !.err2 = r2.err,
                           !.open = IF o \in {"equal", "differ"} THEN CloseDeferred(T.open)
                                    ELSE T.open,
                           !.short = (T.short \/ IsShort(T.p1, T.pos1, r1)
                                              \/ IsShort(T.p2, T.pos2, r2))]]
           /\ faulted' = (faulted \/ r1.err = "fault" \/ r2.err = "fault")
  /\ io' = io \cup {IoCall("read", T.p1), IoCall("read", T.p2)}
  /\ UNCHANGED <<fs, recursive, args, mainpc, wg, out, exited, exitCode>>

\* if !cmpFiles(file1, file2) { fmt.Printf("Files %v and %v differ") }
FileReport(t) ==
  LET T == tasks[t] IN
  /\ ~exited /\ T.kind = "file" /\ T.pc = "report"
  /\ out' = IF T.eq THEN out ELSE Printf(out, FilesDiffer(T.p1, T.p2))
  /\ tasks' = [tasks EXCEPT ![t].pc = "done"]
  /\ UNCHANGED <<fs, recursive, args, mainpc, wg, io, faulted, exited, exitCode>>

\* wg.Done() at the end of diffFiles
FileDone(t) ==
  LET T == tasks[t] IN
  /\ ~exited /\ T.kind = "file" /\ T.pc = "done"
  /\ wg' = WgDone(wg)
  /\ tasks' = [tasks EXCEPT ![t].pc = "finished"]
  /\ UNCHANGED <<fs, recursive, args, mainpc, out, io, faulted, exited, exitCode>>

\* log.Fatal in a goroutine: the process ends with status 1.
TaskFatal(t) ==
  /\ ~exited /\ tasks[t].pc = "fatal"
  /\ exited' = TRUE
  /\ exitCode' = 1
  /\ UNCHANGED <<fs, recursive, args, mainpc, tasks, wg, out, io, faulted>>

\* ------------------------------------------------------------ diffDirs
\* os.ReadDir(dir1), os.ReadDir(dir2) and the two maps
DirRead(t) ==
  LET T == tasks[t] IN
  /\ ~exited /\ T.kind = "dir" /\ T.pc = "readdir"
  /\ \E err \in BOOLEAN :
       LET f1 == ReadDir(T.p1)
           f2 == ReadDir(T.p2)
           start == IF Len(f1) > 0 THEN "loop1"
                    ELSE IF Len(f2) > 0 THEN "loop2" ELSE "done"
       IN  /\ tasks' = [tasks EXCEPT ![t] =
                 IF err
                   THEN [T EXCEPT !.pc = CheckErr(TRUE, start)]
                   ELSE [T EXCEPT !.pc = CheckErr(FALSE, start),
                                  !.files1 = f1, !.files2 = f2, !.i = 1]]
           /\ faulted' = (faulted \/ err)
           /\ io' = io \cup {IoCall("list", T.p1), IoCall("list", T.p2)}
  /\ UNCHANGED <<fs, recursive, args, mainpc, wg, out, exited, exitCode>>

\* One pass of the loop over files1.
DirLoop1(t) ==
  LET T == tasks[t]
      f == T.files1[T.i]
      name == f.name
      hits == {j \in DOMAIN T.files2 : T.files2[j].name = name}
      ok == hits # {}
      d2 == ok /\ T.files2[CHOOSE j \in hits : TRUE].isDir
      cls == Classify(ok, f.isDir, d2, T.rec)
      path1 == Join(T.p1, name)
      path2 == Join(T.p2, name)
      me == [T EXCEPT !.checked = MarkChecked(T.checked, ok, name),
                      !.pc = IF T.i < Len(T.files1) THEN "loop1"
                             ELSE IF Len(T.files2) > 0 THEN "loop2" ELSE "done",
                      !.i = IF T.i < Len(T.files1) THEN T.i + 1 ELSE 1]
  IN
  /\ ~exited /\ T.kind = "dir" /\ T.pc = "loop1"
  /\ IF cls \in {"files", "dirs"}
       THEN /\ wg' = WgAdd(wg)
            /\ tasks' = Append([tasks EXCEPT ![t] = me],
                 IF cls = "files" THEN NewTask("file", t, path1, path2, FALSE)
                 ELSE NewTask("dir", t, path1, path2, TRUE))
            /\ out' = out
       ELSE /\ out' = Printf(out, ClassLine(cls, T.p1, path1, path2, name))
            /\ tasks' = [tasks EXCEPT ![t] = me]
            /\ wg' = wg
  /\ UNCHANGED <<fs, recursive, args, mainpc, io, faulted, exited, exitCode>>

\* One pass of the loop over files2.
DirLoop2(t) ==
  LET T == tasks[t]
      name == T.files2[T.i].name
  IN
  /\ ~exited /\ T.kind = "dir" /\ T.pc = "loop2"
  /\ out' = IF Unchecked(T.checked, name) THEN Printf(out, OnlyIn(T.p2, name)) ELSE out
  /\ tasks' = [tasks EXCEPT ![t] =
       [T EXCEPT !.pc = IF T.i < Len(T.files2) THEN "loop2" ELSE "done",
                 !.i = IF T.i < Len(T.files2) THEN T.i + 1 ELSE T.i]]
  /\ UNCHANGED <<fs, recursive, args, mainpc, wg, io, faulted, exited, exitCode>>

\* wg.Done() at the end of diffDirs
DirDone(t) ==
  LET T == tasks[t] IN
  /\ ~exited /\ T.kind = "dir" /\ T.pc = "done"
  /\ wg' = WgDone(wg)
  /\ tasks' = [tasks EXCEPT ![t].pc = "finished"]
  /\ UNCHANGED <<fs, recursive, args, mainpc, out, io, faulted, exited, exitCode>>

\* ------------------------------------------------------------ the specification
Next ==
  \/ MainParse
  \/ MainStat1
  \/ MainStat2
  \/ MainDispatch
  \/ MainWait
  \/ MainFatal
  \/ \E t \in DOMAIN tasks : FileOpen1(t)
  \/ \E t \in DOMAIN tasks : FileOpen2(t)
  \/ \E t \in DOMAIN tasks : FileRead(t)
  \/ \E t \in DOMAIN tasks : FileReport(t)
  \/ \E t \in DOMAIN tasks : FileDone(t)
  \/ \E t \in DOMAIN tasks : DirRead(t)
  \/ \E t \in DOMAIN tasks : DirLoop1(t)
  \/ \E t \in DOMAIN tasks : DirLoop2(t)
  \/ \E t \in DOMAIN tasks : DirDone(t)
  \/ \E t \in DOMAIN tasks : TaskFatal(t)

Spec == Init /\ [][Next]_vars

\* ------------------------------------------------------------ what the claims speak of
Count(line) == Cardinality({k \in DOMAIN out : out[k] = line})
Finished(t) == tasks[t].pc = "finished"
MainReturned == mainpc = "returned"
BothFiles == ~fs[1][<<>>].dir /\ ~fs[2][<<>>].dir
BothDirs == fs[1][<<>>].dir /\ fs[2][<<>>].dir
\* The names below the relative path rel on one side, and their kinds.
NamesIn(side, rel) == {m \in Names : Append(rel, m) \in DOMAIN fs[side]}
DirIn(side, rel, m) == fs[side][Append(rel, m)].dir
\* The directory tasks whose two loops have ended.
Reconciled == {t \in DOMAIN tasks : tasks[t].kind = "dir" /\ tasks[t].pc \in {"done", "finished"}}
TasksFor(p1, p2) == {u \in DOMAIN tasks : tasks[u].p1 = p1 /\ tasks[u].p2 = p2}
MismatchDF(p1, p2) == TypeMismatch(p1, "directory", p2, "file")
MismatchFD(p1, p2) == TypeMismatch(p1, "file", p2, "directory")
\* u was spawned by t, or by a task spawned below t.
RECURSIVE Below(_, _)
Below(u, t) == u # 0 /\ (tasks[u].parent = t \/ Below(tasks[u].parent, t))

\* ------------------------------------------------------------ files that change
\* Another process truncates or extends path1 or path2 while cmpFiles is in its
\* loop, after the size check: the last byte goes, or a zero byte is appended (up
\* to RaceLen bytes).
RaceLen == CHUNK_SIZE + 1
Truncated(d) == SubSeq(d, 1, Len(d) - 1)
WithData(side, d) == [fs EXCEPT ![side] = (<<>> :> FileNode(d))]

FileChanged ==
  /\ ~exited
  /\ \E t \in DOMAIN tasks : tasks[t].kind = "file" /\ tasks[t].pc = "read"
  /\ \E side \in {1, 2} :
       LET d == fs[side][<<>>].data IN
       /\ ~fs[side][<<>>].dir
       /\ \/ Len(d) > 0 /\ fs' = WithData(side, Truncated(d))
          \/ Len(d) < RaceLen /\ fs' = WithData(side, Append(d, 0))
  /\ UNCHANGED <<recursive, args, mainpc, tasks, wg, out, io, faulted, exited, exitCode>>

\* diff on two files of up to RaceLen bytes that can change under it.
InitRace ==
  /\ Init
  /\ args = TwoPaths
  /\ fs \in RootFiles(DataUpTo(RaceLen)) \X RootFiles(DataUpTo(RaceLen))

NextRace ==
  \/ MainParse
  \/ MainStat1
  \/ MainStat2
  \/ MainDispatch
  \/ MainWait
  \/ MainFatal
  \/ \E t \in DOMAIN tasks : FileOpen1(t)
  \/ \E t \in DOMAIN tasks : FileOpen2(t)
  \/ \E t \in DOMAIN tasks : FileRead(t)
  \/ \E t \in DOMAIN tasks : FileReport(t)
  \/ \E t \in DOMAIN tasks : FileDone(t)
  \/ \E t \in DOMAIN tasks : TaskFatal(t)
  \/ FileChanged

SpecRace == InitRace /\ [][NextRace]_vars

\* C1: without a read that returns fewer bytes than fit, cmpFiles returns true
\* exactly when the two files hold the same bytes (same length, same byte at
\* every offset).
C1_CmpFilesIffSameBytes ==
  \A t \in DOMAIN tasks :
    (tasks[t].kind = "file" /\ tasks[t].pc \in {"report", "done", "finished"} /\ ~tasks[t].short)
      => (tasks[t].eq <=> Data(tasks[t].p1) = Data(tasks[t].p2))

\* Two files of several full chunks and a partial last one, differing only in
\* their final byte, compared as different.
C1_Witness ==
  \E t \in DOMAIN tasks :
    LET a == Data(tasks[t].p1)
        b == Data(tasks[t].p2)
    IN  /\ tasks[t].kind = "file" /\ tasks[t].pc = "report" /\ ~tasks[t].short
        /\ Len(a) = Len(b) /\ Len(a) > 2 * CHUNK_SIZE
        /\ SubSeq(a, 1, Len(a) - 1) = SubSeq(b, 1, Len(b) - 1)
        /\ a[Len(a)] # b[Len(b)]
        /\ ~tasks[t].eq

\* C2: one pass of diffDirs prints "Only in dir1" for exactly the names of
\* L - R, "Only in dir2" for exactly those of R - L, and classifies each name
\* of L \cap R exactly once (a task, a "Common subdirectories" line or a
\* type-mismatch line).
C2_Partition ==
  \A t \in Reconciled :
    LET T == tasks[t]
        L == NamesIn(1, T.p1.rel)
        R == NamesIn(2, T.p2.rel)
    IN  \A m \in Names :
          LET p1 == Child(T.p1, m)
              p2 == Child(T.p2, m)
              pairs == Cardinality(TasksFor(p1, p2)) + Count(CommonSubdirs(p1, p2))
                         + Count(MismatchDF(p1, p2)) + Count(MismatchFD(p1, p2))
          IN  /\ Count(OnlyIn(T.p1, m)) = (IF m \in L \ R THEN 1 ELSE 0)
              /\ Count(OnlyIn(T.p2, m)) = (IF m \in R \ L THEN 1 ELSE 0)
              /\ pairs = (IF m \in L \cap R THEN 1 ELSE 0)

\* A pass over a name of both listings whose types differ, and a name of dir2 alone.
C2_Witness ==
  \E t \in Reconciled :
    LET T == tasks[t]
        L == NamesIn(1, T.p1.rel)
        R == NamesIn(2, T.p2.rel)
    IN  /\ R \ L # {}
        /\ \E m \in L \cap R : DirIn(1, T.p1.rel, m) # DirIn(2, T.p2.rel, m)

\* C3: main's wg.Wait() returns only after every task spawned under the root
\* pair has finished.
C3_WaitCoversAllTasks ==
  MainReturned => \A t \in DOMAIN tasks : Finished(t)

\* main has returned from a run with a nested directory task and a file task below it.
C3_Witness ==
  /\ MainReturned
  /\ \E t, u \in DOMAIN tasks :
       /\ tasks[t].kind = "dir" /\ tasks[t].parent # 0
       /\ tasks[u].kind = "file" /\ tasks[u].parent = t

C5_OneDifferLinePerDifferingPair ==
  (MainReturned /\ (BothFiles \/ (BothDirs /\ recursive)))
    => \A rel \in DOMAIN fs[1] \cap DOMAIN fs[2] :
         (~fs[1][rel].dir /\ ~fs[2][rel].dir)
           => Count(FilesDiffer(Path(1, rel), Path(2, rel)))
                = (IF fs[1][rel].data # fs[2][rel].data THEN 1 ELSE 0)

\* C6: in a non-recursive run on two directories a name that is a directory on
\* both sides gets one "Common subdirectories" line, no task, and nothing at or
\* below it is listed, opened or read.
C6_NoDescent ==
  (BothDirs /\ ~recursive)
    => /\ \A t \in DOMAIN tasks : tasks[t].kind = "dir" => tasks[t].parent = 0
       /\ \A m \in NamesIn(1, <<>>) \cap NamesIn(2, <<>>) :
            (DirIn(1, <<>>, m) /\ DirIn(2, <<>>, m))
              => /\ \A c \in io : ~(Len(c.path.rel) >= 1 /\ c.path.rel[1] = m)
                 /\ TasksFor(Child(Root1, m), Child(Root2, m)) = {}
                 /\ Count(CommonSubdirs(Child(Root1, m), Child(Root2, m))) <= 1
                 /\ MainReturned
                      => Count(CommonSubdirs(Child(Root1, m), Child(Root2, m))) = 1

\* A non-recursive run has ended over a common subdirectory that holds a file on
\* both sides.
C6_Witness ==
  /\ MainReturned /\ BothDirs /\ ~recursive
  /\ \E m, k \in Names :
       /\ <<m>> \in DOMAIN fs[1] /\ <<m>> \in DOMAIN fs[2]
       /\ <<m, k>> \in DOMAIN fs[1] /\ <<m, k>> \in DOMAIN fs[2]
       /\ ~fs[1][<<m, k>>].dir /\ ~fs[2][<<m, k>>].dir
       /\ Count(CommonSubdirs(Child(Root1, m), Child(Root2, m))) = 1

\* C7: with a file on one side and a directory on the other, main spawns
\* nothing, registers nothing on the WaitGroup, makes no call but the two
\* stats, and ends with the usage failure and a non-zero status.
C7_MixedRootsRejected ==
  (args = TwoPaths /\ ~BothFiles /\ ~BothDirs)
    => /\ tasks = <<>>
       /\ wg = 0
       /\ \A c \in io : c.op = "stat"
       /\ mainpc \notin {"wait", "returned"}
       /\ exited => exitCode # 0
       /\ (exited /\ ~faulted) => out = <<CannotCompare>>

\* main has rejected a file against a directory that holds entries.
C7_Witness ==
  /\ args = TwoPaths
  /\ exited /\ ~faulted /\ ~BothFiles /\ ~BothDirs
  /\ out = <<CannotCompare>>
  /\ NamesIn(1, <<>>) \cup NamesIn(2, <<>>) # {}

\* C8, as claimed: no report line is emitted after a file-system call has failed.
C8_NoLineAfterFault == [][faulted => out' = out]_vars

\* C8, amended: after a failed call the goroutine that made it is on its way to
\* log.Fatal and never calls wg.Done(), so main's wait does not return and the
\* process never ends with status 0; once log.Fatal has run the process has
\* ended with status 1.
C8_FaultIsFatal ==
  faulted
    => /\ mainpc # "returned"
       /\ ~(exited /\ exitCode = 0)
       /\ \/ exited /\ exitCode = 1
          \/ mainpc = "fatal"
          \/ \E t \in DOMAIN tasks : tasks[t].pc = "fatal"

\* The process has ended on a fault with another comparison abandoned and lines
\* already written.
C8_Witness ==
  /\ faulted /\ exited /\ exitCode = 1
  /\ Len(out) > 0
  /\ \E t, u \in DOMAIN tasks :
       /\ tasks[t].pc = "fatal"
       /\ tasks[u].pc \notin {"fatal", "finished"}

\* C9: no report line is written twice and no pair of paths is handed to two tasks.
C9_NothingTwice ==
  /\ \A i, j \in DOMAIN out : out[i] = out[j] => i = j
  /\ \A t, u \in DOMAIN tasks :
       (tasks[t].p1 = tasks[u].p1 /\ tasks[t].p2 = tasks[u].p2) => t = u

\* A finished run with several lines and several tasks.
C9_Witness ==
  MainReturned /\ Len(out) >= 2 /\ Len(tasks) >= 2

\* C10: a name of both listings whose types differ gets exactly one type-mismatch
\* line, labelled "directory" / "file" when the entry of dir1 is the directory
\* and "file" / "directory" when it is the file, and neither a task nor an
\* "Only in" line.
C10_MismatchLabels ==
  \A t \in Reconciled :
    LET T == tasks[t] IN
    \A m \in NamesIn(1, T.p1.rel) \cap NamesIn(2, T.p2.rel) :
      LET p1 == Child(T.p1, m)
          p2 == Child(T.p2, m)
          d1 == DirIn(1, T.p1.rel, m)
          d2 == DirIn(2, T.p2.rel, m)
      IN  d1 # d2
            => /\ Count(MismatchDF(p1, p2)) = (IF d1 THEN 1 ELSE 0)
               /\ Count(MismatchFD(p1, p2)) = (IF d1 THEN 0 ELSE 1)
               /\ TasksFor(p1, p2) = {}
               /\ Count(OnlyIn(T.p1, m)) = 0
               /\ Count(OnlyIn(T.p2, m)) = 0

\* A pass over a name that is a file in dir1 and a directory in dir2.
C10_Witness ==
  \E t \in Reconciled :
    \E m \in NamesIn(1, tasks[t].p1.rel) \cap NamesIn(2, tasks[t].p2.rel) :
      /\ ~DirIn(1, tasks[t].p1.rel, m) /\ DirIn(2, tasks[t].p2.rel, m)
      /\ Count(MismatchFD(Child(tasks[t].p1, m), Child(tasks[t].p2, m))) = 1

\* The first offset at which two sequences of the same length differ, and the
\* chunk of cmpFiles that offset lies in.
FirstDiff(a, b) == CHOOSE d \in 1..Len(a) : a[d] # b[d] /\ \A k \in 1..(d - 1) : a[k] = b[k]
ChunkOf(d) == ((d - 1) \div CHUNK_SIZE) + 1
Returned(t) == tasks[t].kind = "file" /\ tasks[t].pc \in {"report", "done", "finished"}

\* C11: cmpFiles reads nothing when the sizes differ; when two files of the same
\* size first differ in chunk k it returns false after the k-th pass of its loop,
\* and no pass ever reads a chunk beyond the one that holds the first difference.
C11_ShortCircuit ==
  \A t \in DOMAIN tasks :
    LET T == tasks[t]
        a == Data(T.p1)
        b == Data(T.p2)
    IN  T.kind = "file"
          => /\ Len(a) # Len(b)
                  => /\ T.reads = 0
                     /\ IoCall("read", T.p1) \notin io
                     /\ IoCall("read", T.p2) \notin io
                     /\ Returned(t) => ~T.eq
             /\ (Len(a) = Len(b) /\ a # b)
                  => LET d == FirstDiff(a, b)
                         k == ChunkOf(d)
                     IN  /\ T.pos1 < d + CHUNK_SIZE
                         /\ T.pos2 < d + CHUNK_SIZE
                         /\ ~T.short => T.reads <= k
                         /\ (~T.short /\ Returned(t))
                              => /\ ~T.eq
                                 /\ T.reads = k
                                 /\ T.pos1 = Min(k * CHUNK_SIZE, Len(a))
                                 /\ T.pos2 = T.pos1

\* cmpFiles has returned false after one pass over files that differ in their
\* first chunk and go on for more than another chunk.
C11_Witness ==
  \E t \in DOMAIN tasks :
    LET T == tasks[t]
        a == Data(T.p1)
        b == Data(T.p2)
    IN  /\ Returned(t) /\ ~T.short /\ ~T.eq
        /\ Len(a) = Len(b) /\ Len(a) > 2 * CHUNK_SIZE
        /\ a # b /\ ChunkOf(FirstDiff(a, b)) = 1
        /\ T.reads = 1 /\ T.pos1 = CHUNK_SIZE

\* C12: when -h is given or the number of paths is not two, main prints the
\* usage text and exits with status 0; it makes no file-system call, spawns no
\* task, registers nothing on the WaitGroup and compares nothing.
C12_UsageExitsZero ==
  (args.help \/ args.n # 2)
    => /\ io = {}
       /\ tasks = <<>>
       /\ wg = 0
       /\ ~faulted
       /\ mainpc \in {"parse", "exit"}
       /\ IF exited THEN exitCode = 0 /\ out = <<UsageLine, FlagDefaults>>
                    ELSE out = <<>>

\* main has exited after the usage text on a command line with three paths and
\* no -h.
C12_Witness ==
  /\ ~args.help /\ args.n = 3
  /\ exited /\ exitCode = 0
  /\ out = <<UsageLine, FlagDefaults>>

\* C13: after a pass of cmpFiles' loop in which both reads returned the same
\* count n below CHUNK_SIZE, the loop went on exactly when the first n bytes of
\* the two buffers agree and cmpFiles returned false exactly when they do not:
\* the bytes beyond n, left by earlier reads, are the same in both buffers.
C13_StaleBytesNeverDecide ==
  \A t \in DOMAIN tasks :
    LET T == tasks[t] IN
    (T.kind = "file" /\ T.err1 = "nil" /\ T.err2 = "nil" /\ T.n1 = T.n2 /\ T.n1 < CHUNK_SIZE)
      => LET same == SubSeq(T.b1, 1, T.n1) = SubSeq(T.b2, 1, T.n1)
         IN  /\ same => T.pc = "read"
             /\ ~same => Returned(t) /\ ~T.eq
             /\ \A k \in (T.n1 + 1)..CHUNK_SIZE : T.b1[k] = T.b2[k]

\* The loop went on after a partial last chunk whose buffers still hold a
\* non-zero byte of the chunk before.
C13_Witness ==
  \E t \in DOMAIN tasks :
    LET T == tasks[t] IN
    /\ T.kind = "file" /\ T.pc = "read" /\ ~T.short
    /\ T.err1 = "nil" /\ T.err2 = "nil"
    /\ T.n1 = T.n2 /\ T.n1 < CHUNK_SIZE /\ T.reads >= 2
    /\ T.b1[CHUNK_SIZE] = 1
    /\ Data(T.p1)[T.pos1] = 0

\* C14, as claimed: once a read has returned fewer bytes than requested without
\* reaching the end of the file, cmpFiles has returned false (or the other read
\* of the pass has failed).
C14_ShortReadReturnsFalse ==
  \A t \in DOMAIN tasks :
    LET T == tasks[t] IN
    (T.kind = "file" /\ T.short) => (T.pc = "fatal" \/ (Returned(t) /\ ~T.eq))

\* C14, amended: cmpFiles returns false on a short read only when the two reads
\* of the pass returned different counts, whatever the contents; when both
\* returned the same count the pass is decided by the bytes, and the loop goes
\* on if they agree.
C14_UnequalCountsReturnFalse ==
  \A t \in DOMAIN tasks :
    LET T == tasks[t] IN
    (T.kind = "file" /\ T.err1 = "nil" /\ T.err2 = "nil")
      => /\ T.n1 # T.n2 => (Returned(t) /\ ~T.eq /\ T.short)
         /\ T.n1 = T.n2 => /\ T.b1 = T.b2 => T.pc = "read"
                           /\ T.b1 # T.b2 => (Returned(t) /\ ~T.eq)

\* cmpFiles has returned false on two files with the same contents after a pass
\* whose reads returned different counts.
C14_Witness ==
  \E t \in DOMAIN tasks :
    LET T == tasks[t] IN
    /\ Returned(t) /\ ~T.eq /\ T.short
    /\ T.err1 = "nil" /\ T.err2 = "nil" /\ T.n1 # T.n2
    /\ Data(T.p1) = Data(T.p2)

\* C15: when in one pass of cmpFiles' loop one read reports io.EOF and the other
\* returns data with a nil error, cmpFiles returns false: the task goes on to
\* report the difference, it does not call log.Fatal, and the process ends with
\* status 0.
C15_OneSidedEofIsUnequal ==
  \A t \in DOMAIN tasks :
    LET T == tasks[t] IN
    (T.kind = "file" /\ ((T.err1 = "EOF" /\ T.err2 = "nil") \/ (T.err1 = "nil" /\ T.err2 = "EOF")))
      => /\ Returned(t)
         /\ ~T.eq
         /\ ~faulted
         /\ T.pc \in {"done", "finished"} => Count(FilesDiffer(T.p1, T.p2)) = 1
         /\ exited => exitCode = 0

\* path1 was cut short after the size check: its read reported io.EOF while the
\* read of path2 returned data, and the run ended with the report line and
\* status 0.
C15_Witness ==
  /\ exited /\ exitCode = 0
  /\ out = <<FilesDiffer(Root1, Root2)>>
  /\ \E t \in DOMAIN tasks :
       /\ tasks[t].err1 = "EOF" /\ tasks[t].err2 = "nil"
       /\ tasks[t].n2 > 0 /\ tasks[t].sz1 = tasks[t].sz2

\* The step is one of task t: its position or its count of passes changes.
StepOf(t) == tasks'[t].pc # tasks[t].pc \/ tasks'[t].reads # tasks[t].reads

\* C16: the handles f1 and f2 of a file comparison belong to its task: they are
\* opened and closed only by steps of that task, both are open while cmpFiles
\* is in its loop, and none is open once cmpFiles has returned, whether on the
\* size check, with true, with false or on a single end-of-input, so none is
\* open when the task calls wg.Done().
C16_HandlesReleased ==
  /\ [](\A t \in DOMAIN tasks :
          LET T == tasks[t] IN
          /\ T.kind = "dir" => T.open = {}
          /\ (T.kind = "file" /\ T.pc = "open1") => T.open = {}
          /\ (T.kind = "file" /\ T.pc = "open2") => T.open = {1}
          /\ (T.kind = "file" /\ T.pc = "read") => T.open = {1, 2}
          /\ Returned(t) => T.open = {})
  /\ [][\A t \in DOMAIN tasks : tasks'[t].open # tasks[t].open => StepOf(t)]_vars

\* A comparison that ended on an end-of-input of path2 alone has closed both
\* files and called wg.Done().
C16_Witness ==
  \E t \in DOMAIN tasks :
    LET T == tasks[t] IN
    /\ T.kind = "file" /\ T.pc = "finished" /\ T.open = {}
    /\ T.err1 = "nil" /\ T.err2 = "EOF"
    /\ {IoCall("open", T.p1), IoCall("open", T.p2)} \subseteq io
    /\ wg = 0

ReportKinds == {"differ", "only", "mismatch", "common"}

\* C17: a step of a goroutine changes no other goroutine's state and none of
\* the inputs; what the goroutines share is the WaitGroup counter and standard
\* output, and every step that writes adds one whole report line at the end of
\* the output and leaves the lines before it as they are.
C17_OneWritePerLine ==
  [][tasks # <<>>
       => /\ \A t, u \in DOMAIN tasks :
               (t # u /\ tasks'[t] # tasks[t]) => tasks'[u] = tasks[u]
          /\ fs' = fs /\ recursive' = recursive /\ args' = args
          /\ \/ out' = out
             \/ /\ Len(out') = Len(out) + 1
                /\ SubSeq(out', 1, Len(out)) = out
                /\ out'[Len(out')].kind \in ReportKinds]_vars

\* A file task has written its line while the directory task that spawned it is
\* still in its second loop, about to write a line of its own.
C17_Witness ==
  \E t, u \in DOMAIN tasks :
    /\ tasks[t].kind = "file" /\ tasks[t].pc \in {"done", "finished"} /\ ~tasks[t].eq
    /\ tasks[u].kind = "dir" /\ tasks[u].pc = "loop2"
    /\ Unchecked(tasks[u].checked, tasks[u].files2[tasks[u].i].name)
    /\ Len(out) >= 1
    /\ out[Len(out)] = FilesDiffer(tasks[t].p1, tasks[t].p2)

\* The Go scheduler runs every goroutine that can take a step, and main.
SpecFair == Init /\ [][Next]_vars /\ WF_vars(Next)

\* C18: under fair scheduling every run ends. A run with a failed file-system
\* call ends with status 1; a run of two files or two directories without one
\* ends with status 0 after wg.Wait() has returned, with every task spawned
\* past its wg.Done(); main never waits for ever.
C18_RunFinishes ==
  /\ <>exited
  /\ [](exited
          => IF faulted THEN exitCode = 1
             ELSE (args = TwoPaths /\ (BothFiles \/ BothDirs))
                    => /\ exitCode = 0
                       /\ MainReturned
                       /\ wg = 0
                       /\ tasks # <<>>
                       /\ \A t \in DOMAIN tasks : Finished(t))

\* A recursive run over trees with a nested directory has ended with status 0
\* with at least three tasks, all past their wg.Done().
C18_Witness ==
  /\ exited /\ exitCode = 0 /\ ~faulted /\ MainReturned /\ recursive
  /\ Len(tasks) >= 3
  /\ \A t \in DOMAIN tasks : Finished(t)
  /\ \E t \in DOMAIN tasks : tasks[t].kind = "dir" /\ tasks[t].parent # 0

Live == {t \in DOMAIN tasks : ~Finished(t)}

\* C19: the WaitGroup counter is never negative and is the number of tasks
\* registered with wg.Add(1) that have not yet called wg.Done(), so it is 0 only
\* when no task is running or pending. A task is registered one at a time, by
\* main (with the counter at 0) or by a directory task that has not called its
\* own Done (with the counter at 1 or more); a Done lowers the counter by one
\* for one task, no task calls it twice, and when main has returned every task
\* has called it.
C19_CounterCountsLiveTasks ==
  /\ [](/\ wg >= 0
        /\ wg = Cardinality(Live)
        /\ MainReturned => (tasks # <<>> /\ Live = {}))
  /\ [][/\ Len(tasks') >= Len(tasks)
        /\ Len(tasks') # Len(tasks)
             => /\ Len(tasks') = Len(tasks) + 1
                /\ wg' = wg + 1
                /\ LET p == tasks'[Len(tasks')].parent
                   IN  IF p = 0 THEN mainpc = "dispatch" /\ wg = 0
                       ELSE /\ p \in DOMAIN tasks
                            /\ tasks[p].kind = "dir"
                            /\ ~Finished(p)
                            /\ tasks'[p].pc # "finished"
                            /\ wg >= 1
        /\ \A t \in DOMAIN tasks : Finished(t) => tasks'[t] = tasks[t]
        /\ wg' < wg
             => /\ wg' = wg - 1
                /\ Cardinality({t \in Live : tasks'[t].pc = "finished"}) = 1
        /\ (\E t \in Live : tasks'[t].pc = "finished") => wg' = wg - 1]_vars

\* Two tasks registered by the root directory task are counted while that task
\* has already called Done.
C19_Witness ==
  /\ wg = 2
  /\ \E t, u, v \in DOMAIN tasks :
       /\ t # u /\ tasks[t].parent = v /\ tasks[u].parent = v
       /\ ~Finished(t) /\ ~Finished(u)
       /\ Finished(v) /\ tasks[v].parent = 0

\* The report lines the two trees call for, read off the file system alone: the
\* lines for the names below the directories at rel, and for the two roots.
RECURSIVE ExpectedAt(_, _)
ExpectedAt(rel, rec) ==
  LET d1 == Path(1, rel)
      d2 == Path(2, rel)
      LinesFor(m) ==
        LET c == Append(rel, m)
            p1 == Path(1, c)
            p2 == Path(2, c)
        IN  IF m \notin NamesIn(2, rel) THEN {OnlyIn(d1, m)}
            ELSE IF m \notin NamesIn(1, rel) THEN {OnlyIn(d2, m)}
            ELSE IF DirIn(1, rel, m) /\ DirIn(2, rel, m)
                   THEN (IF rec THEN ExpectedAt(c, rec) ELSE {CommonSubdirs(p1, p2)})
            ELSE IF DirIn(1, rel, m) THEN {MismatchDF(p1, p2)}
            ELSE IF DirIn(2, rel, m) THEN {MismatchFD(p1, p2)}
            ELSE IF Data(p1) # Data(p2) THEN {FilesDiffer(p1, p2)}
            ELSE {}
  IN  UNION {LinesFor(m) : m \in NamesIn(1, rel) \cup NamesIn(2, rel)}

Expected ==
  IF BothDirs THEN ExpectedAt(<<>>, recursive)
  ELSE IF BothFiles /\ Data(Root1) # Data(Root2) THEN {FilesDiffer(Root1, Root2)}
  ELSE {}

====
